---- MODULE Spec2Model ----
(***************************************************************************)
(* Model of server/services/origin/hwp_extractor.py: the text normalizer   *)
(* (normalize_text), the encoding detector (smart_decode) and the          *)
(* extraction orchestrator (try_hwpx, extract_with_pyhwp,                  *)
(* extract_with_hwp_extract, extract_text, main).                          *)
(*                                                                         *)
(* A str is a sequence of code points (integers), a bytes object is a      *)
(* sequence of byte values.  The character predicates below are those of   *)
(* CPython/Unicode restricted to the code points the model can produce.    *)
(***************************************************************************)
EXTENDS Integers, Sequences, FiniteSets, TLC

VARIABLES
  nraw,      \* normalize_text: the argument raw
  nout,      \* normalize_text(raw)
  nout2,     \* normalize_text(normalize_text(raw))
  npc,       \* position of the normalize_text driver
  draw,      \* smart_decode: the argument raw
  dpc,       \* smart_decode: "pass1", "pass2" (narrowed buffer) or "done"
  di,        \* smart_decode: index of the next candidate of the running loop
  best_txt,  \* smart_decode: best_txt
  best_score,\* smart_decode: best_score, a fraction <<numerator, denominator>>
  dtried,    \* smart_decode: the candidate texts decoded so far in this call
  dret,      \* smart_decode: the returned str, None until it returns
  dexit,     \* smart_decode: the return statement taken
  args,          \* main: the argument list
  HAS_PYHWP,     \* module global: whether hwp5 and lxml were imported
  file_readable, \* whether open(path, "rb") succeeds
  pc,            \* position of main / extract_text
  started,       \* the strategies extract_text has called, in call order
  hwpx_failure,  \* the exception try_hwpx met and swallowed, "none" if none
  hwpx_text,     \* extract_text: hwpx_text
  pyhwp_text,    \* extract_text: pyhwp_text
  pyhwp_error,   \* extract_text: pyhwp_error
  text_fragments,\* extract_with_hwp_extract: text_fragments
  raw_error,     \* the exception that left extract_with_hwp_extract
  result_text,   \* the text extract_text returned
  result_label,  \* the label extract_text returned, "none" before
  raised,        \* the exception that left extract_text
  handler,       \* main: the except clause that ran, "none" if none
  stdout,        \* the messages written to sys.stdout, in order
  stderr,        \* the messages written to sys.stderr, in order
  exit_status    \* the process exit status, -1 while main runs

nvars == <<nraw, nout, nout2, npc>>

dvars == <<draw, dpc, di, best_txt, best_score, dtried, dret, dexit>>

ovars == <<args, HAS_PYHWP, file_readable, pc, started, hwpx_failure,
           hwpx_text, pyhwp_text, pyhwp_error, text_fragments, raw_error,
           result_text, result_label, raised, handler, stdout, stderr,
           exit_status>>

vars == <<nraw, nout, nout2, npc,
          draw, dpc, di, best_txt, best_score, dtried, dret, dexit,
          args, HAS_PYHWP, file_readable, pc, started, hwpx_failure,
          hwpx_text, pyhwp_text, pyhwp_error, text_fragments, raw_error,
          result_text, result_label, raised, handler, stdout, stderr,
          exit_status>>

----------------------------------------------------------------------------
(* Bounds of the model.                                                    *)

MaxLen == 4        \* longest str given to normalize_text in SpecNorm
MaxLineLen == 6    \* longest single line given to normalize_text in SpecGate
MaxBuf == 4        \* longest byte buffer given to smart_decode in SpecDecode
MaxEntries == 2    \* most entries of a zip container in Spec
MaxStreams == 2    \* most streams extract_files() yields in Spec

----------------------------------------------------------------------------
(* Code points.                                                            *)

NUL == 0
TAB == 9
LF == 10
CR == 13
SP == 32
HASH == 35         \* '#'
STAR == 42         \* '*'
DOT == 46          \* '.'
ONE == 49          \* '1'
LT == 60           \* '<'
GT == 62           \* '>'
LatA == 97         \* 'a'
GA == 44032        \* U+AC00 HANGUL SYLLABLE GA
ZHONG == 20013     \* U+4E2D CJK ideograph
REPL == 65533      \* U+FFFD REPLACEMENT CHARACTER

\* Python's None where a str is expected: a value that is no str
None == <<-1>>

----------------------------------------------------------------------------
(* str predicates of the Python runtime.                                   *)

\* str.isspace() / the regex class \s
isspace(ch) == ch \in (9..13) \cup (28..32) \cup {133, 160}

\* str.isprintable(): false for controls (Cc), separators other than the
\* ASCII space, and private-use code points (Co).
isprintable(ch) ==
  /\ ~(ch \in 0..31)
  /\ ~(ch \in 127..160)
  /\ ~(ch \in 57344..63743)

\* str.isalpha(): general category L*.
isalpha(ch) ==
  \/ ch \in 65..90
  \/ ch \in 97..122
  \/ ch \in 192..255 /\ ch # 215 /\ ch # 247
  \/ ch \in 1040..1103                \* Cyrillic letters
  \/ ch \in 2821..2873                \* Oriya letters
  \/ ch \in 3077..3129                \* Telugu letters
  \/ ch \in 13312..19903              \* CJK extension A
  \/ ch \in 19968..40959              \* CJK unified ideographs
  \/ ch \in 44032..55203              \* Hangul syllables

isdigit(ch) == ch \in 48..57

\* str.isalnum()
isalnum(ch) == isalpha(ch) \/ isdigit(ch)

\* unicodedata.category(ch).startswith(("L", "N"))
IsLetterOrNumberCategory(ch) == isalpha(ch) \/ isdigit(ch)

IsHangulSyllable(ch) == ch >= 44032 /\ ch <= 55203

IsLatinLetter(ch) == ch \in 65..90 \/ ch \in 97..122

----------------------------------------------------------------------------
(* Sequence helpers.                                                       *)

RECURSIVE Count(_, _)
Count(s, x) ==
  IF s = <<>> THEN 0
  ELSE (IF Head(s) = x THEN 1 ELSE 0) + Count(Tail(s), x)

\* sep.join(parts)
RECURSIVE Join(_, _)
Join(parts, sep) ==
  IF parts = <<>> THEN <<>>
  ELSE IF Len(parts) = 1 THEN parts[1]
  ELSE parts[1] \o sep \o Join(Tail(parts), sep)

\* s.split("\n")
RECURSIVE SplitLines(_)
SplitLines(s) ==
  IF \A i \in 1..Len(s) : s[i] # LF THEN <<s>>
  ELSE LET k == CHOOSE i \in 1..Len(s) :
                  s[i] = LF /\ \A j \in 1..(i - 1) : s[j] # LF
       IN <<SubSeq(s, 1, k - 1)>> \o SplitLines(SubSeq(s, k + 1, Len(s)))

\* s.strip()
RECURSIVE LStrip(_)
LStrip(s) ==
  IF s # <<>> /\ isspace(Head(s)) THEN LStrip(Tail(s)) ELSE s

RECURSIVE RStrip(_)
RStrip(s) ==
  IF s # <<>> /\ isspace(s[Len(s)]) THEN RStrip(SubSeq(s, 1, Len(s) - 1)) ELSE s

Strip(s) == RStrip(LStrip(s))

----------------------------------------------------------------------------
(* normalize_text                                                          *)

\* raw.replace("\r\n", "\n")
RECURSIVE ReplaceCRLF(_)
ReplaceCRLF(s) ==
  IF s = <<>> THEN <<>>
  ELSE IF Len(s) >= 2 /\ s[1] = CR /\ s[2] = LF
       THEN <<LF>> \o ReplaceCRLF(SubSeq(s, 3, Len(s)))
       ELSE <<s[1]>> \o ReplaceCRLF(Tail(s))

\* .replace("\r", "\n")
ReplaceCR(s) == [i \in 1..Len(s) |-> IF s[i] = CR THEN LF ELSE s[i]]

\* [\x00-\x08\x0b\x0c\x0e-\x1f]
IsControlChar(ch) == ch \in (0..8) \cup {11, 12} \cup (14..31)

IsNotNul(ch) == ch # NUL

IsNotControlChar(ch) == ~IsControlChar(ch)

\* re.sub(r"\n{3,}", "\n\n", s): run is the length of the newline run so far
RECURSIVE CollapseNewlinesFrom(_, _)
CollapseNewlinesFrom(s, run) ==
  IF s = <<>> THEN <<>>
  ELSE IF Head(s) = LF
       THEN (IF run >= 2 THEN <<>> ELSE <<LF>>)
              \o CollapseNewlinesFrom(Tail(s), run + 1)
       ELSE <<Head(s)>> \o CollapseNewlinesFrom(Tail(s), 0)

CollapseNewlines(s) == CollapseNewlinesFrom(s, 0)

\* lines 120-123
Clean(raw) ==
  CollapseNewlines(
    SelectSeq(SelectSeq(ReplaceCR(ReplaceCRLF(raw)), IsNotNul), IsNotControlChar))

\* set(".,!?;:'\"()[]{}<>-–—…%&/+•|#")
punctuation ==
  {46, 44, 33, 63, 59, 58, 39, 34, 40, 41, 91, 93, 123, 125, 60, 62, 45,
   8211, 8212, 8230, 37, 38, 47, 43, 8226, 124, 35}

is_allowed_char(ch) ==
  \/ isspace(ch)
  \/ ch \in punctuation
  \/ ch >= 48 /\ ch <= 57
  \/ (ch >= 65 /\ ch <= 90) \/ (ch >= 97 /\ ch <= 122)
  \/ ch >= 44032 /\ ch <= 55203
  \/ (ch >= 4352 /\ ch <= 4607) \/ (ch >= 12592 /\ ch <= 12687)
  \/ (ch >= 19968 /\ ch <= 40959) \/ (ch >= 13312 /\ ch <= 19903)
  \/ ch >= 12288 /\ ch <= 12351
  \/ ch >= 8208 /\ ch <= 8286
  \/ IsLetterOrNumberCategory(ch)

\* re.sub(r"\s+", " ", s)
RECURSIVE CollapseWhitespace(_)
CollapseWhitespace(s) ==
  IF s = <<>> THEN <<>>
  ELSE IF isspace(Head(s))
       THEN <<SP>> \o CollapseWhitespace(LStrip(Tail(s)))
       ELSE <<Head(s)>> \o CollapseWhitespace(Tail(s))

\* [가-힣A-Za-z0-9]
IsSpanStart(ch) == IsHangulSyllable(ch) \/ IsLatinLetter(ch) \/ isdigit(ch)

\* [가-힣A-Za-z0-9\s.,!?…()\-]
IsSpanChar(ch) ==
  IsSpanStart(ch) \/ isspace(ch) \/ ch \in {46, 44, 33, 63, 8230, 40, 41, 45}

\* length of the longest prefix of s made of span characters
RECURSIVE SpanPrefixLen(_)
SpanPrefixLen(s) ==
  IF s # <<>> /\ IsSpanChar(Head(s)) THEN 1 + SpanPrefixLen(Tail(s)) ELSE 0

\* re.findall(r"[가-힣A-Za-z0-9][가-힣A-Za-z0-9\s.,!?…()\-]*", s)
RECURSIVE FindSpans(_)
FindSpans(s) ==
  IF s = <<>> THEN <<>>
  ELSE IF IsSpanStart(Head(s))
       THEN LET n == 1 + SpanPrefixLen(Tail(s))
            IN <<SubSeq(s, 1, n)>> \o FindSpans(SubSeq(s, n + 1, Len(s)))
       ELSE FindSpans(Tail(s))

\* max(spans, key=len): the first span of maximal length
MaxByLen(spans) ==
  LET k == CHOOSE i \in 1..Len(spans) :
             /\ \A j \in 1..Len(spans) : Len(spans[j]) <= Len(spans[i])
             /\ \A j \in 1..(i - 1) : Len(spans[j]) < Len(spans[i])
  IN spans[k]

\* lines 153-155
FilteredLine(raw_line) ==
  Strip(CollapseWhitespace(SelectSeq(raw_line, is_allowed_char)))

\* line 163 without the strip()
BestSpan_NoStrip(filtered_line) == MaxByLen(FindSpans(filtered_line))

\* line 163 (on a line that has candidate spans)
BestSpan(filtered_line) == Strip(MaxByLen(FindSpans(filtered_line)))

\* a gate whose threshold is 0.1 instead of 0.2
PassesGate_Tenth(best_span) ==
  LET hangul_chars == Len(SelectSeq(best_span, IsHangulSyllable))
      alnum_chars == Len(SelectSeq(best_span, isalnum))
  IN /\ alnum_chars # 0
     /\ ~(10 * hangul_chars < alnum_chars
          /\ \A i \in 1..Len(best_span) : ~IsLatinLetter(best_span[i]))

\* lines 167-172: TRUE when the span passes the quality gate
\* hangul_chars / alnum_chars < 0.2 is 5 * hangul_chars < alnum_chars
PassesGate(best_span) ==
  LET hangul_chars == Len(SelectSeq(best_span, IsHangulSyllable))
      alnum_chars == Len(SelectSeq(best_span, isalnum))
  IN /\ alnum_chars # 0
     /\ ~(5 * hangul_chars < alnum_chars
          /\ \A i \in 1..Len(best_span) : ~IsLatinLetter(best_span[i]))

\* the body of the loop at lines 152-174: the lines one raw line appends
SanitizeLine(raw_line) ==
  LET filtered_line == FilteredLine(raw_line)
  IN IF filtered_line = <<>> THEN <<>>
     ELSE IF FindSpans(filtered_line) = <<>> THEN <<>>
     ELSE LET best_span == BestSpan(filtered_line)
          IN IF best_span = <<>> THEN <<>>
             ELSE IF ~PassesGate(best_span) THEN <<>>
             ELSE <<best_span>>

RECURSIVE SanitizeLines(_)
SanitizeLines(lines) ==
  IF lines = <<>> THEN <<>>
  ELSE SanitizeLine(Head(lines)) \o SanitizeLines(Tail(lines))

normalize_text(raw) == Join(SanitizeLines(SplitLines(Clean(raw))), <<LF>>)

----------------------------------------------------------------------------
(* Input domains.                                                          *)

NormAlphabet == {LF, CR, SP, HASH, DOT, ONE, LatA, GA, STAR, NUL}

GateAlphabet == {GA, ZHONG, ONE, HASH, LatA}

StringsUpTo(alphabet, n) == UNION {[1..k -> alphabet] : k \in 0..n}

----------------------------------------------------------------------------
(* bytes.decode for the six codecs smart_decode uses.  A decoding is       *)
(* [ok |-> FALSE] when bytes.decode raises and [ok |-> TRUE, txt |-> str]   *)
(* otherwise.  The codecs are modelled on buffers over ByteAlphabet.       *)

ByteAlphabet == {0, 65, 129, 172, 176, 224}

Failed == [ok |-> FALSE, txt |-> <<>>]

Decoded(txt) == [ok |-> TRUE, txt |-> txt]

\* the 16-bit code units of raw, low byte first when le
Utf16Units(raw, le) ==
  [i \in 1..(Len(raw) \div 2) |->
     IF le THEN raw[2 * i - 1] + 256 * raw[2 * i]
           ELSE 256 * raw[2 * i - 1] + raw[2 * i]]

IsSurrogate(u) == u \in 55296..57343

\* raw.decode("utf-16-le") / raw.decode("utf-16-be"): strict, so a truncated
\* code unit or a lone surrogate raises.  ByteAlphabet forms no surrogate.
DecodeUtf16Strict(raw, le) ==
  IF Len(raw) % 2 # 0 THEN Failed
  ELSE IF \E i \in 1..(Len(raw) \div 2) : IsSurrogate(Utf16Units(raw, le)[i])
       THEN Failed
       ELSE Decoded(Utf16Units(raw, le))

\* raw.decode("utf-16", errors="replace"): a byte order mark selects the
\* byte order and is dropped, otherwise the byte order is little-endian;
\* a truncated code unit becomes U+FFFD.
DecodeUtf16Replace(raw) ==
  LET hasLeBom == Len(raw) >= 2 /\ raw[1] = 255 /\ raw[2] = 254
      hasBeBom == Len(raw) >= 2 /\ raw[1] = 254 /\ raw[2] = 255
      body == IF hasLeBom \/ hasBeBom THEN SubSeq(raw, 3, Len(raw)) ELSE raw
      units == Utf16Units(body, ~hasBeBom)
  IN Decoded([i \in 1..Len(units) |->
                IF IsSurrogate(units[i]) THEN REPL ELSE units[i]]
             \o (IF Len(body) % 2 # 0 THEN <<REPL>> ELSE <<>>))

\* the two-byte sequences of cp949 over ByteAlphabet and their code points
Cp949Table ==
  (<<129, 65>> :> 44034) @@
  (<<129, 129>> :> 44118) @@
  (<<129, 172>> :> 44181) @@
  (<<129, 176>> :> 44185) @@
  (<<129, 224>> :> 44255) @@
  (<<172, 65>> :> 52478) @@
  (<<172, 129>> :> 52543) @@
  (<<172, 172>> :> 1050) @@
  (<<172, 176>> :> 1054) @@
  (<<172, 224>> :> 1086) @@
  (<<176, 65>> :> 52890) @@
  (<<176, 129>> :> 52950) @@
  (<<176, 172>> :> 44052) @@
  (<<176, 176>> :> 44057) @@
  (<<176, 224>> :> 44207) @@
  (<<224, 172>> :> 24109) @@
  (<<224, 176>> :> 26512) @@
  (<<224, 224>> :> 34203)

\* euc-kr has only the KS X 1001 plane: lead and trail byte in 0xA1..0xFE
EucKrTable ==
  [p \in {q \in DOMAIN Cp949Table : q[1] >= 161 /\ q[2] >= 161} |->
     Cp949Table[p]]

\* a double-byte codec with errors="replace": ASCII bytes map to themselves,
\* a valid pair to its code point, any other byte alone to U+FFFD
RECURSIVE DecodeDoubleByte(_, _)
DecodeDoubleByte(raw, table) ==
  IF raw = <<>> THEN <<>>
  ELSE IF raw[1] < 128
       THEN <<raw[1]>> \o DecodeDoubleByte(Tail(raw), table)
  ELSE IF Len(raw) >= 2 /\ <<raw[1], raw[2]>> \in DOMAIN table
       THEN <<table[<<raw[1], raw[2]>>]>>
              \o DecodeDoubleByte(SubSeq(raw, 3, Len(raw)), table)
       ELSE <<REPL>> \o DecodeDoubleByte(Tail(raw), table)

\* the code point of a well-formed UTF-8 sequence
Utf8CodePoint(sq) ==
  CASE Len(sq) = 2 -> (sq[1] - 192) * 64 + (sq[2] - 128)
    [] Len(sq) = 3 -> (sq[1] - 224) * 4096 + (sq[2] - 128) * 64 + (sq[3] - 128)
    [] Len(sq) = 4 -> (sq[1] - 240) * 262144 + (sq[2] - 128) * 4096
                        + (sq[3] - 128) * 64 + (sq[4] - 128)

\* the number of bytes a lead byte announces, 0 for a byte that leads nothing
Utf8Length(lead) ==
  IF lead \in 194..223 THEN 2
  ELSE IF lead \in 224..239 THEN 3
  ELSE IF lead \in 240..244 THEN 4
  ELSE 0

\* the values the second byte of a sequence may take
Utf8SecondByte(lead) ==
  CASE lead = 224 -> 160..191
    [] lead = 237 -> 128..159
    [] lead = 240 -> 144..191
    [] lead = 244 -> 128..143
    [] OTHER -> 128..191

\* the length of the longest well-formed prefix of the sequence raw starts with
Utf8PrefixLen(raw) ==
  LET n == Utf8Length(raw[1])
  IN IF n = 0 \/ Len(raw) < 2 \/ ~(raw[2] \in Utf8SecondByte(raw[1])) THEN 1
     ELSE IF n = 2 THEN 2
     ELSE IF Len(raw) < 3 \/ ~(raw[3] \in 128..191) THEN 2
     ELSE IF n = 3 THEN 3
     ELSE IF Len(raw) < 4 \/ ~(raw[4] \in 128..191) THEN 3
     ELSE 4

\* raw.decode("utf-8", errors="replace"): an ill-formed maximal subpart
\* becomes one U+FFFD
RECURSIVE DecodeUtf8Replace(_)
DecodeUtf8Replace(raw) ==
  IF raw = <<>> THEN <<>>
  ELSE IF raw[1] < 128
       THEN <<raw[1]>> \o DecodeUtf8Replace(Tail(raw))
       ELSE LET k == Utf8PrefixLen(raw)
            IN (IF k = Utf8Length(raw[1])
                THEN <<Utf8CodePoint(SubSeq(raw, 1, k))>>
                ELSE <<REPL>>)
                 \o DecodeUtf8Replace(SubSeq(raw, k + 1, Len(raw)))

\* raw.decode(enc, **kw) for the candidates of lines 77-87
Decode(raw, enc) ==
  CASE enc = "utf-16-le" -> DecodeUtf16Strict(raw, TRUE)
    [] enc = "utf-16-be" -> DecodeUtf16Strict(raw, FALSE)
    [] enc = "utf-16" -> DecodeUtf16Replace(raw)
    [] enc = "cp949" -> Decoded(DecodeDoubleByte(raw, Cp949Table))
    [] enc = "euc-kr" -> Decoded(DecodeDoubleByte(raw, EucKrTable))
    [] enc = "utf-8" -> Decoded(DecodeUtf8Replace(raw))

----------------------------------------------------------------------------
(* smart_decode.  A score is kept as a fraction <<numerator, denominator>>  *)
(* with a positive denominator.                                            *)

IsPrintableOrNewlineTab(ch) == isprintable(ch) \/ ch \in {LF, TAB}

Max(a, b) == IF a >= b THEN a ELSE b

\* printable / max(1, len(candidate)), as <<printable, max(1, len)>>
printable_ratio(candidate) ==
  IF candidate = <<>> THEN <<0, 1>>
  ELSE <<Len(SelectSeq(candidate, IsPrintableOrNewlineTab)), Max(1, Len(candidate))>>

\* hangul / max(1, letters), as <<hangul, max(1, letters)>>
hangul_ratio(candidate) ==
  IF candidate = <<>> THEN <<0, 1>>
  ELSE <<Len(SelectSeq(candidate, IsHangulSyllable)),
         Max(1, Len(SelectSeq(candidate, isalpha)))>>

\* _printable_ratio(txt) + 0.4 * _hangul_ratio(txt)  =  p/n + 2h/(5l)
score_text(txt) ==
  LET pr == printable_ratio(txt)
      hr == hangul_ratio(txt)
  IN <<5 * pr[1] * hr[2] + 2 * hr[1] * pr[2], 5 * pr[2] * hr[2]>>

ScoreGt(a, b) == a[1] * b[2] > b[1] * a[2]

ScoreGe(a, b) == a[1] * b[2] >= b[1] * a[2]

\* sc > 1.2.  In binary floating point 0.8 + 0.4 is 1.2000000000000002, so
\* a text that is 4/5 printable with every letter Hangul also passes.
ScoreAbove12(txt) ==
  LET pr == printable_ratio(txt)
      hr == hangul_ratio(txt)
      sc == score_text(txt)
  IN \/ 5 * sc[1] > 6 * sc[2]
     \/ 5 * pr[1] = 4 * pr[2] /\ hr[1] = hr[2]

\* best_score < 0.9
ScoreBelow09(sc) == 10 * sc[1] < 9 * sc[2]

SampleLimit == 4096

\* raw[:4096]
Sample(raw) == SubSeq(raw, 1, IF Len(raw) < SampleLimit THEN Len(raw) ELSE SampleLimit)

\* sample.count(b"\x00") > len(sample) * 0.2
looks_utf16_Half(raw) == 2 * Count(Sample(raw), 0) > Len(Sample(raw))

looks_utf16(raw) == 5 * Count(Sample(raw), 0) > Len(Sample(raw))

\* lines 75-87
Candidates(raw) ==
  (IF looks_utf16(raw) THEN <<"utf-16-le", "utf-16-be", "utf-16">> ELSE <<>>)
    \o <<"cp949", "euc-kr", "utf-8">>

\* line 105
NarrowedCandidates == <<"cp949", "euc-kr", "utf-8">>

\* raw[::2]
Narrowed(raw) == [i \in 1..((Len(raw) + 1) \div 2) |-> raw[2 * i - 1]]

\* the state of the loops of smart_decode; tried records the decoded candidates
LoopInit ==
  [best_txt |-> <<>>, best_score |-> <<-1, 1>>, ret |-> None, tried |-> {}]

\* a loop body that keeps the candidate decoded last
LoopBody_KeepLast(st, buf, enc) ==
  LET d == Decode(buf, enc)
  IN IF ~d.ok THEN st
     ELSE [best_txt |-> d.txt,
           best_score |-> score_text(d.txt),
           ret |-> IF ScoreAbove12(d.txt) THEN d.txt ELSE None,
           tried |-> st.tried \cup {d.txt}]

\* one iteration of the loop at lines 92-101 (and 105-114) on buffer buf
LoopBody(st, buf, enc) ==
  LET d == Decode(buf, enc)
      sc == score_text(d.txt)
      better == ScoreGt(sc, st.best_score)
  IN IF ~d.ok THEN st
     ELSE [best_txt |-> IF better THEN d.txt ELSE st.best_txt,
           best_score |-> IF better THEN sc ELSE st.best_score,
           ret |-> IF ScoreAbove12(d.txt) THEN d.txt ELSE None,
           tried |-> st.tried \cup {d.txt}]

\* the element of a one-element set: The({e(x) : x \in {v}}) is e(v) with v
\* computed once
The(S) == CHOOSE x \in S : TRUE

\* a whole loop: stops at the first return
RECURSIVE RunLoop(_, _, _)
RunLoop(st, buf, encs) ==
  IF encs = <<>> \/ st.ret # None THEN st
  ELSE The({RunLoop(s, buf, Tail(encs)) : s \in {LoopBody(st, buf, Head(encs))}})

\* line 103
NarrowingApplies(raw, score) ==
  looks_utf16(raw) /\ ScoreBelow09(score) /\ Len(raw) >= 4

\* lines 103-116 after the first loop left s1: the loop over the narrowed
\* buffer when line 103 asks for it, and the return of line 116
AfterFirstPass(raw, s1) ==
  IF NarrowingApplies(raw, s1.best_score)
  THEN The({IF s2.ret # None THEN s2.ret ELSE s2.best_txt :
              s2 \in {RunLoop(s1, Narrowed(raw), NarrowedCandidates)}})
  ELSE s1.best_txt

smart_decode(raw) ==
  The({IF s1.ret # None THEN s1.ret ELSE AfterFirstPass(raw, s1) :
         s1 \in {RunLoop(LoopInit, raw, Candidates(raw))}})

----------------------------------------------------------------------------
(* Exceptions.  An exception is its class and str(err); a message is a     *)
(* sequence of text parts, so that f"{err}{suffix}" is a concatenation.    *)

Exc(kind, msg) == [kind |-> kind, msg |-> msg]

\* None where an exception is expected
NoExc == Exc("none", <<>>)

\* str(err) of the exceptions raised by the runtime and by the libraries
LibraryMessage(kind) == <<"<" \o kind \o ">">>

LibraryError(kind) == Exc(kind, LibraryMessage(kind))

\* line 36: the ImportError kept when hwp5 or lxml is not installed
PYHWP_IMPORT_ERROR == LibraryError("ImportError")

\* line 263
NoTextMessage == <<"No textual content found in HWP file.">>

\* isinstance(err, cls) for the except clauses of main
IsInstance(err, cls) ==
  \/ cls = "Exception"
  \/ err.kind = cls
  \/ cls = "HWPExtractorError" /\ err.kind = "HWPExtractorNoPasswordError"

\* the outcome of a call: the value returned, or the exception that leaves it
Returns(value) == [value |-> value, raised |-> NoExc]

Raises(err) == [value |-> None, raised |-> err]

----------------------------------------------------------------------------
(* try_hwpx                                                                *)

ZipSignature == <<80, 75, 3, 4>>        \* b"PK\x03\x04"
OleSignature == <<208, 207, 17, 224>>   \* a compound document

\* str.lower() on ASCII
Lower(s) == [i \in 1..Len(s) |-> IF s[i] \in 65..90 THEN s[i] + 32 ELSE s[i]]

StartsWith(s, prefix) ==
  Len(s) >= Len(prefix) /\ SubSeq(s, 1, Len(prefix)) = prefix

EndsWith(s, suffix) ==
  Len(s) >= Len(suffix) /\ SubSeq(s, Len(s) - Len(suffix) + 1, Len(s)) = suffix

\* a < b in the order sorted() gives strings
RECURSIVE LexLess(_, _)
LexLess(a, b) ==
  IF b = <<>> THEN FALSE
  ELSE IF a = <<>> THEN TRUE
  ELSE IF Head(a) # Head(b) THEN Head(a) < Head(b)
  ELSE LexLess(Tail(a), Tail(b))

\* sorted(names) for a set of distinct names
RECURSIVE Sorted(_)
Sorted(names) ==
  IF names = {} THEN <<>>
  ELSE LET least == CHOOSE n \in names : \A m \in names \ {n} : LexLess(n, m)
       IN <<least>> \o Sorted(names \ {least})

ContentsSectionPrefix ==   \* "contents/section"
  <<99, 111, 110, 116, 101, 110, 116, 115, 47, 115, 101, 99, 116, 105, 111, 110>>

XmlSuffix == <<46, 120, 109, 108>>   \* ".xml"

\* lines 190
IsSectionEntry(name) ==
  StartsWith(Lower(name), ContentsSectionPrefix) /\ EndsWith(Lower(name), XmlSuffix)

\* the index of the first '>' of s, 0 when there is none
FirstGt(s) ==
  IF \A i \in 1..Len(s) : s[i] # GT THEN 0
  ELSE CHOOSE i \in 1..Len(s) : s[i] = GT /\ \A j \in 1..(i - 1) : s[j] # GT

\* re.sub(r"<[^>]+>", " ", s)
RECURSIVE StripTags(_)
StripTags(s) ==
  IF s = <<>> THEN <<>>
  ELSE IF Head(s) = LT /\ FirstGt(Tail(s)) >= 2
       THEN <<SP>> \o StripTags(SubSeq(s, FirstGt(Tail(s)) + 2, Len(s)))
       ELSE <<Head(s)>> \o StripTags(Tail(s))

\* lines 196-204 for the entries named names of archive entries
EntryData(entries, name) ==
  LET k == CHOOSE i \in 1..Len(entries) : entries[i].name = name
  IN entries[k].data

SectionTexts(entries, names) ==
  [i \in 1..Len(names) |->
     StripTags(DecodeUtf8Replace(EntryData(entries, names[i])))]

\* the exception met inside try_hwpx, "none" when it meets none
HwpxFailure(f) ==
  IF ~f.readable THEN "OSError"
  ELSE IF f.signature = ZipSignature /\ f.zip.bad THEN "BadZipFile"
  ELSE "none"

\* lines 187-191
SectionEntries(entries) ==
  {entries[i].name : i \in {j \in 1..Len(entries) : IsSectionEntry(entries[j].name)}}

\* a try_hwpx without the except clause of line 207
try_hwpx_NoCatch(f) ==
  IF HwpxFailure(f) # "none" THEN Raises(LibraryError(HwpxFailure(f)))
  ELSE IF f.signature # ZipSignature THEN Returns(None)
  ELSE LET section_entries == SectionEntries(f.zip.entries)
       IN IF section_entries = {} THEN Returns(None)
          ELSE Returns(normalize_text(
                 Join(SectionTexts(f.zip.entries, Sorted(section_entries)),
                      <<LF>>)))

\* f is the file at path: whether it can be opened, its first four bytes
\* and what zipfile makes of it
try_hwpx(f) ==
  IF HwpxFailure(f) # "none" THEN Returns(None)
  ELSE IF f.signature # ZipSignature THEN Returns(None)
  ELSE LET section_entries == SectionEntries(f.zip.entries)
       IN IF section_entries = {} THEN Returns(None)
          ELSE Returns(normalize_text(
                 Join(SectionTexts(f.zip.entries, Sorted(section_entries)),
                      <<LF>>)))

----------------------------------------------------------------------------
(* extract_with_pyhwp.  h is what the hwp5 and lxml libraries do with the  *)
(* file: each of the text transform, the HTML transform and text_content   *)
(* returns a value or raises.                                              *)

IsAsciiWhitespace(b) == b \in {9, 10, 11, 12, 13, 32}

\* bytes.strip() is empty
BytesBlank(raw) == \A i \in 1..Len(raw) : IsAsciiWhitespace(raw[i])

PyhwpResult(text, error) == [text |-> text, error |-> error]

\* lines 233-236
PyhwpNormalized(text) ==
  LET normalized == normalize_text(text)
  IN IF normalized # <<>> THEN PyhwpResult(normalized, NoExc)
     ELSE PyhwpResult(None,
            Exc("ValueError", <<"pyhwp output was empty after normalization">>))

extract_with_pyhwp(has_pyhwp, h) ==
  IF ~has_pyhwp THEN Returns(PyhwpResult(None, PYHWP_IMPORT_ERROR))
  ELSE IF h.text.raised # NoExc THEN Returns(PyhwpResult(None, h.text.raised))
  ELSE IF BytesBlank(h.text.value)
       THEN IF h.html.raised # NoExc
            THEN Returns(PyhwpResult(None, h.html.raised))
            ELSE IF BytesBlank(h.html.value)
            THEN Returns(PyhwpResult(None,
                   Exc("ValueError", <<"pyhwp produced no output">>)))
            ELSE IF h.content.raised # NoExc
            THEN Returns(PyhwpResult(None, h.content.raised))
            ELSE Returns(PyhwpNormalized(h.content.value))
       ELSE Returns(PyhwpNormalized(DecodeUtf8Replace(h.text.value)))

----------------------------------------------------------------------------
(* extract_with_hwp_extract.  x is what the file and the hwp_extract        *)
(* library give: whether the file can be read, the streams extract_files() *)
(* yields, and the exception the extractor raises, if any.                 *)

BodyTextPrefix == <<98, 111, 100, 121, 116, 101, 120, 116, 47>>    \* "bodytext/"
ViewTextPrefix == <<118, 105, 101, 119, 116, 101, 120, 116, 47>>   \* "viewtext/"

\* lines 251-252
IsBodyStream(name) ==
  StartsWith(Lower(name), BodyTextPrefix) \/ StartsWith(Lower(name), ViewTextPrefix)

\* lines 257-260 without the test of line 259
FragmentOf_KeepEmpty(decoded) ==
  IF decoded = <<>> THEN <<>> ELSE <<normalize_text(decoded)>>

\* lines 255-260: what a body stream whose stripped decoding is decoded adds
\* to text_fragments
FragmentOf(decoded) ==
  IF decoded = <<>> THEN <<>>
  ELSE The({IF normalized = <<>> THEN <<>> ELSE <<normalized>> :
              normalized \in {normalize_text(decoded)}})

\* lines 250-260: text_fragments after the loop over streams
RECURSIVE Fragments(_)
Fragments(streams) ==
  IF streams = <<>> THEN <<>>
  ELSE (IF ~IsBodyStream(Head(streams).name) THEN <<>>
        ELSE FragmentOf(Strip(smart_decode(Head(streams).data))))
         \o Fragments(Tail(streams))

\* lines 262-265
JoinFragments(fragments) ==
  IF fragments = <<>>
  THEN Raises(Exc("RuntimeError", NoTextMessage))
  ELSE Returns(Join(fragments, <<LF, LF>>))

extract_with_hwp_extract(x) ==
  IF ~x.readable THEN Raises(LibraryError("OSError"))
  ELSE IF x.raised # NoExc THEN Raises(x.raised)
  ELSE The({JoinFragments(fragments) : fragments \in {Fragments(x.streams)}})

----------------------------------------------------------------------------
(* extract_text                                                            *)

\* if text:  for an Optional[str]
Truthy(text) == text # None /\ text # <<>>

\* lines 283-285
FallbackLabel(has_pyhwp) ==
  IF ~has_pyhwp /\ PYHWP_IMPORT_ERROR # NoExc
  THEN "smart_decode (pyhwp missing)"
  ELSE "smart_decode"

\* an except clause that lets the caught exception through unchanged
WrapError_Reraise(err, error) == err

\* lines 287-291: the exception raised for err, caught from the raw-stream
\* strategy, when the pyhwp strategy left error
WrapError(err, error) ==
  Exc("RuntimeError",
      err.msg \o (IF error # NoExc
                  THEN <<" (pyhwp failed: ">> \o error.msg \o <<")">>
                  ELSE <<>>))

----------------------------------------------------------------------------
(* Driver of normalize_text: apply it to an input, then to its own output. *)

NormIdle ==
  /\ nraw = <<>>
  /\ nout = None
  /\ nout2 = None
  /\ npc = "idle"

MainIdle ==
  /\ args = <<>>
  /\ HAS_PYHWP = FALSE
  /\ file_readable = FALSE
  /\ pc = "idle"
  /\ started = <<>>
  /\ hwpx_failure = "none"
  /\ hwpx_text = None
  /\ pyhwp_text = None
  /\ pyhwp_error = NoExc
  /\ text_fragments = <<>>
  /\ raw_error = NoExc
  /\ result_text = None
  /\ result_label = "none"
  /\ raised = NoExc
  /\ handler = "none"
  /\ stdout = <<>>
  /\ stderr = <<>>
  /\ exit_status = -1

DecodeIdle ==
  /\ draw = <<>>
  /\ dpc = "idle"
  /\ di = 1
  /\ best_txt = <<>>
  /\ best_score = <<-1, 1>>
  /\ dtried = {}
  /\ dret = None
  /\ dexit = "running"

InitNorm ==
  /\ nraw \in StringsUpTo(NormAlphabet, MaxLen)
  /\ nout = None
  /\ nout2 = None
  /\ npc = "start"
  /\ DecodeIdle
  /\ MainIdle

InitGate ==
  /\ nraw \in StringsUpTo(GateAlphabet, MaxLineLen)
  /\ nout = None
  /\ nout2 = None
  /\ npc = "start"
  /\ DecodeIdle
  /\ MainIdle

Normalize ==
  /\ npc = "start"
  /\ nout' = normalize_text(nraw)
  /\ npc' = "once"
  /\ UNCHANGED <<nraw, nout2>>
  /\ UNCHANGED dvars
  /\ UNCHANGED ovars

Renormalize ==
  /\ npc = "once"
  /\ nout2' = normalize_text(nout)
  /\ npc' = "twice"
  /\ UNCHANGED <<nraw, nout>>
  /\ UNCHANGED dvars
  /\ UNCHANGED ovars

NextNorm == Normalize \/ Renormalize

SpecNorm == InitNorm /\ [][NextNorm]_vars

SpecGate == InitGate /\ [][NextNorm]_vars

----------------------------------------------------------------------------
(* Driver of smart_decode: one action per loop iteration and loop exit.    *)

InitDecode ==
  /\ draw \in StringsUpTo(ByteAlphabet, MaxBuf)
  /\ dpc = "pass1"
  /\ di = 1
  /\ best_txt = <<>>
  /\ best_score = <<-1, 1>>
  /\ dtried = {}
  /\ dret = None
  /\ dexit = "running"
  /\ NormIdle
  /\ MainIdle

LoopState ==
  [best_txt |-> best_txt, best_score |-> best_score, ret |-> None,
   tried |-> dtried]

\* lines 92-101 (exit is the return at line 101) and 105-114 (line 114)
Iterate(buf, encs, exit) ==
  /\ di <= Len(encs)
  /\ LET st == LoopBody(LoopState, buf, encs[di])
     IN /\ best_txt' = st.best_txt
        /\ best_score' = st.best_score
        /\ dtried' = st.tried
        /\ IF st.ret # None
           THEN dret' = st.ret /\ dexit' = exit /\ dpc' = "done" /\ di' = di
           ELSE dret' = dret /\ dexit' = dexit /\ dpc' = dpc /\ di' = di + 1
  /\ UNCHANGED <<draw>>

TryCandidate ==
  /\ dpc = "pass1"
  /\ Iterate(draw, Candidates(draw), "return_first_pass")
  /\ UNCHANGED nvars
  /\ UNCHANGED ovars

\* line 103, and line 116 when the narrowed pass is not entered
EndFirstPass ==
  /\ dpc = "pass1"
  /\ di > Len(Candidates(draw))
  /\ IF NarrowingApplies(draw, best_score)
     THEN dpc' = "pass2" /\ di' = 1 /\ UNCHANGED <<dret, dexit>>
     ELSE dpc' = "done" /\ dret' = best_txt /\ dexit' = "return_best"
          /\ UNCHANGED di
  /\ UNCHANGED <<draw, best_txt, best_score, dtried>>
  /\ UNCHANGED nvars
  /\ UNCHANGED ovars

TryNarrowedCandidate ==
  /\ dpc = "pass2"
  /\ Iterate(Narrowed(draw), NarrowedCandidates, "return_narrowed_pass")
  /\ UNCHANGED nvars
  /\ UNCHANGED ovars

\* line 116 after the narrowed pass
EndNarrowedPass ==
  /\ dpc = "pass2"
  /\ di > Len(NarrowedCandidates)
  /\ dpc' = "done"
  /\ dret' = best_txt
  /\ dexit' = "return_best"
  /\ UNCHANGED <<draw, di, best_txt, best_score, dtried>>
  /\ UNCHANGED nvars
  /\ UNCHANGED ovars

NextDecode ==
  \/ TryCandidate
  \/ EndFirstPass
  \/ TryNarrowedCandidate
  \/ EndNarrowedPass

SpecDecode == InitDecode /\ [][NextDecode]_vars

----------------------------------------------------------------------------
(* The documents main is run on.                                           *)

SeqsUpTo(S, n) == UNION {[1..k -> S] : k \in 0..n}

EntryNames ==
  { <<67, 111, 110, 116, 101, 110, 116, 115, 47, 115, 101, 99, 116, 105, 111,
      110, 48, 46, 120, 109, 108>>,        \* "Contents/section0.xml"
    <<67, 111, 110, 116, 101, 110, 116, 115, 47, 83, 101, 99, 116, 105, 111,
      110, 49, 46, 120, 109, 108>>,        \* "Contents/Section1.xml"
    <<109, 105, 109, 101, 116, 121, 112, 101>> }   \* "mimetype"

XmlSamples ==
  { <<60, 112, 62, 234, 176, 128, 235, 130, 152, 60, 47, 112, 62>>,
                                           \* <p>GA NA</p> in UTF-8
    <<60, 112, 62, 42, 42, 60, 47, 112, 62>>,      \* <p>**</p>
    <<60, 112, 62, 234, 176, 128, 60, 47, 112, 62, 10,
      60, 112, 62, 97, 32, 49, 60, 47, 112, 62>> } \* <p>GA</p>\n<p>a 1</p>

Archives ==
  {e \in SeqsUpTo([name : EntryNames, data : XmlSamples], MaxEntries) :
     \A i, j \in 1..Len(e) : i # j => e[i].name # e[j].name}

ZipContents ==
  {[bad |-> TRUE, entries |-> <<>>]} \cup {[bad |-> FALSE, entries |-> e] : e \in Archives}

Signatures == {ZipSignature, OleSignature}

TextSamples ==
  { <<234, 176, 128, 235, 130, 152, 13, 10, 13, 10, 13, 10, 97, 46, 10>>,
                                           \* GA NA \r\n\r\n\r\n a. \n
    <<35, 35, 35>> }                       \* ###

BlankBytes == <<32, 10>>

HtmlBytes == <<60, 112, 62, 234, 176, 128, 32, 97, 60, 47, 112, 62>>

ContentSamples == { <<GA, SP, LatA>>, <<HASH>> }

Hwp5Errors == {"ParseError", "InvalidHwp5FileError", "OSError"}

Hwp5Outcomes ==
  {[text |-> Raises(LibraryError(k)), html |-> Returns(<<>>),
    content |-> Returns(<<>>)] : k \in Hwp5Errors}
  \cup
  {[text |-> Returns(t), html |-> Returns(<<>>), content |-> Returns(<<>>)] :
     t \in TextSamples}
  \cup
  {[text |-> Returns(BlankBytes), html |-> Raises(LibraryError(k)),
    content |-> Returns(<<>>)] : k \in {"ParseError"}}
  \cup
  {[text |-> Returns(BlankBytes), html |-> Returns(BlankBytes),
    content |-> Returns(<<>>)]}
  \cup
  {[text |-> Returns(BlankBytes), html |-> Returns(HtmlBytes),
    content |-> c] :
     c \in {Returns(v) : v \in ContentSamples} \cup {Raises(LibraryError("ParserError"))}}

StreamNames ==
  { <<66, 111, 100, 121, 84, 101, 120, 116, 47, 83, 101, 99, 116, 105, 111,
      110, 48>>,                           \* "BodyText/Section0"
    <<86, 105, 101, 119, 84, 101, 120, 116, 47, 83, 101, 99, 116, 105, 111,
      110, 48>>,                           \* "ViewText/Section0"
    <<66, 111, 100, 121, 84, 101, 120, 116, 47, 83, 101, 99, 116, 105, 111,
      110, 49>>,                           \* "BodyText/Section1"
    <<80, 114, 118, 84, 101, 120, 116>> }  \* "PrvText"

StreamData ==
  { <<0, 172, 0, 176>>,    \* two Hangul syllables in UTF-16-LE
    <<65, 0, 176, 176>>,   \* 'A' and a Hangul syllable in UTF-16-LE
    <<172, 176>>,          \* one Hangul syllable in UTF-16-LE, no zero byte
    <<32, 10>> }           \* white space

\* the streams of a compound document: no two have the same name
StreamLists ==
  {ss \in SeqsUpTo([name : StreamNames, data : StreamData], MaxStreams) :
     \A i, j \in 1..Len(ss) : i # j => ss[i].name # ss[j].name}

ExtractorErrors == {"HWPExtractorNoPasswordError", "HWPExtractorError"}

ExtractorOutcomes ==
  {[raised |-> LibraryError(k), streams |-> <<>>] : k \in ExtractorErrors}
  \cup
  {[raised |-> NoExc, streams |-> ss] : ss \in StreamLists}

----------------------------------------------------------------------------
(* main and extract_text, one action per step.                             *)

Init ==
  /\ args \in {<<>>, <<"doc.hwp">>}
  /\ HAS_PYHWP \in BOOLEAN
  /\ file_readable \in BOOLEAN
  /\ pc = "main"
  /\ started = <<>>
  /\ hwpx_failure = "none"
  /\ hwpx_text = None
  /\ pyhwp_text = None
  /\ pyhwp_error = NoExc
  /\ text_fragments = <<>>
  /\ raw_error = NoExc
  /\ result_text = None
  /\ result_label = "none"
  /\ raised = NoExc
  /\ handler = "none"
  /\ stdout = <<>>
  /\ stderr = <<>>
  /\ exit_status = -1
  /\ NormIdle
  /\ DecodeIdle

\* lines 296-298
MainUsage ==
  /\ pc = "main"
  /\ args = <<>>
  /\ stderr' = Append(stderr, <<"Usage: hwp_extractor.py <path-to-hwp>\n">>)
  /\ exit_status' = 1
  /\ pc' = "exited"
  /\ UNCHANGED <<args, HAS_PYHWP, file_readable, started, hwpx_failure,
                 hwpx_text, pyhwp_text, pyhwp_error, text_fragments, raw_error,
                 result_text, result_label, raised, handler, stdout>>
  /\ UNCHANGED <<nvars, dvars>>

\* lines 300-303: main calls extract_text(path)
MainCallsExtractText ==
  /\ pc = "main"
  /\ args # <<>>
  /\ pc' = "try_hwpx"
  /\ UNCHANGED <<args, HAS_PYHWP, file_readable, started, hwpx_failure,
                 hwpx_text, pyhwp_text, pyhwp_error, text_fragments, raw_error,
                 result_text, result_label, raised, handler, stdout, stderr,
                 exit_status>>
  /\ UNCHANGED <<nvars, dvars>>

\* lines 269-271, that skip the return of line 271
TryHwpx_NoReturn ==
  /\ pc = "try_hwpx"
  /\ \E signature \in Signatures, zip \in ZipContents :
       LET f == [readable |-> file_readable, signature |-> signature, zip |-> zip]
           r == try_hwpx(f)
       IN /\ started' = Append(started, "hwpx")
          /\ hwpx_failure' = HwpxFailure(f)
          /\ hwpx_text' = r.value
          /\ pc' = "try_pyhwp"
          /\ UNCHANGED <<result_text, result_label, raised>>
  /\ UNCHANGED <<args, HAS_PYHWP, file_readable, pyhwp_text, pyhwp_error,
                 text_fragments, raw_error, handler, stdout, stderr, exit_status>>
  /\ UNCHANGED <<nvars, dvars>>

\* lines 269-271
TryHwpx ==
  /\ pc = "try_hwpx"
  /\ \E signature \in Signatures, zip \in ZipContents :
       LET f == [readable |-> file_readable, signature |-> signature, zip |-> zip]
           r == try_hwpx(f)
       IN /\ started' = Append(started, "hwpx")
          /\ hwpx_failure' = HwpxFailure(f)
          /\ IF r.raised # NoExc
             THEN /\ raised' = r.raised
                  /\ pc' = "raised"
                  /\ UNCHANGED <<hwpx_text, result_text, result_label>>
             ELSE /\ hwpx_text' = r.value
                  /\ raised' = raised
                  /\ IF Truthy(r.value)
                     THEN /\ result_text' = r.value
                          /\ result_label' = "hwpx"
                          /\ pc' = "returned"
                     ELSE /\ UNCHANGED <<result_text, result_label>>
                          /\ pc' = "try_pyhwp"
  /\ UNCHANGED <<args, HAS_PYHWP, file_readable, pyhwp_text, pyhwp_error,
                 text_fragments, raw_error, handler, stdout, stderr, exit_status>>
  /\ UNCHANGED <<nvars, dvars>>

\* lines 276-279 when HAS_PYHWP
TryPyhwp ==
  /\ pc = "try_pyhwp"
  /\ HAS_PYHWP
  /\ \E h \in Hwp5Outcomes :
       /\ ~file_readable => h.text.raised = LibraryError("OSError")
       /\ LET r == extract_with_pyhwp(HAS_PYHWP, h)
          IN /\ started' = Append(started, "pyhwp")
             /\ IF r.raised # NoExc
                THEN /\ raised' = r.raised
                     /\ pc' = "raised"
                     /\ UNCHANGED <<pyhwp_text, pyhwp_error, result_text,
                                    result_label>>
                ELSE /\ pyhwp_text' = r.value.text
                     /\ pyhwp_error' = r.value.error
                     /\ raised' = raised
                     /\ IF Truthy(r.value.text)
                        THEN /\ result_text' = r.value.text
                             /\ result_label' = "pyhwp"
                             /\ pc' = "returned"
                        ELSE /\ UNCHANGED <<result_text, result_label>>
                             /\ pc' = "try_raw"
  /\ UNCHANGED <<args, HAS_PYHWP, file_readable, hwpx_failure, hwpx_text,
                 text_fragments, raw_error, handler, stdout, stderr, exit_status>>
  /\ UNCHANGED <<nvars, dvars>>

\* line 276 when not HAS_PYHWP
SkipPyhwp ==
  /\ pc = "try_pyhwp"
  /\ ~HAS_PYHWP
  /\ pc' = "try_raw"
  /\ UNCHANGED <<args, HAS_PYHWP, file_readable, started, hwpx_failure,
                 hwpx_text, pyhwp_text, pyhwp_error, text_fragments, raw_error,
                 result_text, result_label, raised, handler, stdout, stderr,
                 exit_status>>
  /\ UNCHANGED <<nvars, dvars>>

\* lines 281-291
TryRawStream ==
  /\ pc = "try_raw"
  /\ \E e \in ExtractorOutcomes :
       LET x == [readable |-> file_readable, raised |-> e.raised,
                 streams |-> e.streams]
           r == extract_with_hwp_extract(x)
       IN /\ started' = Append(started, "smart_decode")
          /\ raw_error' = r.raised
          /\ text_fragments' =
               IF x.readable /\ x.raised = NoExc THEN Fragments(x.streams) ELSE <<>>
          /\ IF r.raised # NoExc
             THEN /\ raised' = WrapError(r.raised, pyhwp_error)
                  /\ pc' = "raised"
                  /\ UNCHANGED <<result_text, result_label>>
             ELSE /\ result_text' = r.value
                  /\ result_label' = FallbackLabel(HAS_PYHWP)
                  /\ pc' = "returned"
                  /\ raised' = raised
  /\ UNCHANGED <<args, HAS_PYHWP, file_readable, hwpx_failure, hwpx_text,
                 pyhwp_text, pyhwp_error, handler, stdout, stderr, exit_status>>
  /\ UNCHANGED <<nvars, dvars>>

\* line 304
MainWritesDiagnostic ==
  /\ pc = "returned"
  /\ stderr' = Append(stderr, <<"Decoded using ", result_label, " path.\n">>)
  /\ pc' = "write_text"
  /\ UNCHANGED <<args, HAS_PYHWP, file_readable, started, hwpx_failure,
                 hwpx_text, pyhwp_text, pyhwp_error, text_fragments, raw_error,
                 result_text, result_label, raised, handler, stdout,
                 exit_status>>
  /\ UNCHANGED <<nvars, dvars>>

\* line 305, then main returns and the process ends with status 0
MainWritesText ==
  /\ pc = "write_text"
  /\ stdout' = Append(stdout, result_text)
  /\ exit_status' = 0
  /\ pc' = "exited"
  /\ UNCHANGED <<args, HAS_PYHWP, file_readable, started, hwpx_failure,
                 hwpx_text, pyhwp_text, pyhwp_error, text_fragments, raw_error,
                 result_text, result_label, raised, handler, stderr>>
  /\ UNCHANGED <<nvars, dvars>>

\* lines 306-314: the first except clause whose class the exception has
HandlerFor(err) ==
  IF IsInstance(err, "HWPExtractorNoPasswordError")
  THEN "except HWPExtractorNoPasswordError"
  ELSE IF IsInstance(err, "HWPExtractorError")
  THEN "except HWPExtractorError"
  ELSE "except Exception"

\* an except clause that forgets sys.exit(1)
MainHandlesError_NoExit ==
  /\ pc = "raised"
  /\ handler' = HandlerFor(raised)
  /\ stderr' = Append(stderr, raised.msg \o <<"\n">>)
  /\ exit_status' = 0
  /\ pc' = "exited"
  /\ UNCHANGED <<args, HAS_PYHWP, file_readable, started, hwpx_failure,
                 hwpx_text, pyhwp_text, pyhwp_error, text_fragments, raw_error,
                 result_text, result_label, raised, stdout>>
  /\ UNCHANGED <<nvars, dvars>>

\* lines 306-314
MainHandlesError ==
  /\ pc = "raised"
  /\ handler' = HandlerFor(raised)
  /\ stderr' = Append(stderr, raised.msg \o <<"\n">>)
  /\ exit_status' = 1
  /\ pc' = "exited"
  /\ UNCHANGED <<args, HAS_PYHWP, file_readable, started, hwpx_failure,
                 hwpx_text, pyhwp_text, pyhwp_error, text_fragments, raw_error,
                 result_text, result_label, raised, stdout>>
  /\ UNCHANGED <<nvars, dvars>>

Next ==
  \/ MainUsage
  \/ MainCallsExtractText
  \/ TryHwpx
  \/ TryPyhwp
  \/ SkipPyhwp
  \/ TryRawStream
  \/ MainWritesDiagnostic
  \/ MainWritesText
  \/ MainHandlesError

Spec == Init /\ [][Next]_vars

----------------------------------------------------------------------------
(* Properties.                                                             *)

IsPrefix(a, b) == Len(a) <= Len(b) /\ a = SubSeq(b, 1, Len(a))

Last(sq) == sq[Len(sq)]

HangulCount(s) == Len(SelectSeq(s, IsHangulSyllable))

AlnumCount(s) == Len(SelectSeq(s, isalnum))

HasNoLatinLetter(s) == \A i \in 1..Len(s) : ~IsLatinLetter(s[i])

\* a NormalizedDocument: non-empty, no empty line, so that consecutive lines
\* are separated by exactly one newline
IsNormalizedDocument(text) ==
  /\ text # None
  /\ text # <<>>
  /\ \A i \in 1..Len(SplitLines(text)) : SplitLines(text)[i] # <<>>

\* the priority order of the strategies available in this run
StrategyOrder ==
  IF HAS_PYHWP THEN <<"hwpx", "pyhwp", "smart_decode">>
  ELSE <<"hwpx", "smart_decode">>

\* the text a strategy that ran has produced
ProducedBy(strategy) ==
  CASE strategy = "hwpx" -> hwpx_text
    [] strategy = "pyhwp" -> pyhwp_text
    [] strategy = "smart_decode" ->
         IF text_fragments = <<>> THEN None ELSE Join(text_fragments, <<LF, LF>>)

LabelOf(strategy) ==
  IF strategy = "smart_decode"
  THEN (IF HAS_PYHWP THEN "smart_decode" ELSE "smart_decode (pyhwp missing)")
  ELSE strategy

\* C1: the strategies are started in the order hwpx, pyhwp (only with the
\* library), smart_decode; what extract_text returns is the text and the label
\* of the strategy started last, that text is non-empty, every strategy
\* started before it produced no text, and no strategy is started after it
\* (a non-empty hwpx text means label "hwpx" and no other strategy started).
C1_FirstSuccessfulStrategy ==
  /\ IsPrefix(started, StrategyOrder)
  /\ Truthy(hwpx_text) => started = <<"hwpx">> /\ result_label = "hwpx"
  /\ result_label # "none" =>
       /\ started # <<>>
       /\ result_label = LabelOf(Last(started))
       /\ Truthy(result_text)
       /\ result_text = ProducedBy(Last(started))
       /\ \A i \in 1..(Len(started) - 1) : ~Truthy(ProducedBy(started[i]))

C1_Witness ==
  /\ pc = "exited"
  /\ result_label = "hwpx"
  /\ started = <<"hwpx">>
  /\ stdout = <<hwpx_text>>

\* C2: when the raw-stream extractor raises its no-password error, the
\* exception that leaves extract_text is of the no-password class and main
\* handles it in the except clause dedicated to that class.
C2_NoPasswordKeepsItsClass ==
  (raw_error.kind = "HWPExtractorNoPasswordError" /\ raised # NoExc) =>
     /\ raised.kind = "HWPExtractorNoPasswordError"
     /\ handler \in {"none", "except HWPExtractorNoPasswordError"}

\* C3: no exception met inside try_hwpx or extract_with_pyhwp leaves
\* extract_text: an exception leaves it only after the raw-stream strategy
\* was started, extract_text never ends without a result of strategy 1 or 2
\* unless the raw-stream strategy was started, and a strategy that met an
\* exception reports no text.
C3_FirstTwoStrategiesNeverRaise ==
  /\ raised # NoExc => started # <<>> /\ Last(started) = "smart_decode"
  /\ (pc \in {"returned", "write_text", "raised", "exited"} /\ args # <<>>
        /\ result_label \notin {"hwpx", "pyhwp"})
       => started # <<>> /\ Last(started) = "smart_decode"
  /\ hwpx_failure # "none" => ~Truthy(hwpx_text)
  /\ pyhwp_error # NoExc => ~Truthy(pyhwp_text)

C3_Witness ==
  /\ hwpx_failure = "BadZipFile"
  /\ pyhwp_error.kind = "ParseError"
  /\ started = <<"hwpx", "pyhwp", "smart_decode">>

\* C4, as claimed: an exception that leaves extract_text carries the fixed
\* "no textual content found" message (possibly suffixed), unless it stems
\* from the extractor's no-password error.
C4_OnlyTerminalOrEncrypted ==
  raised # NoExc =>
     \/ StartsWith(raised.msg, NoTextMessage)
     \/ raw_error.kind = "HWPExtractorNoPasswordError"

\* C4, amended: an exception that leaves extract_text is a RuntimeError whose
\* message is the message of the exception that ended the raw-stream
\* strategy (the fixed message when no fragment survived, else the message
\* of the read or extractor error), followed by the pyhwp diagnostic when
\* the pyhwp strategy recorded an error.
C4_RaisedWrapsRawStreamFailure ==
  raised # NoExc =>
     /\ raised.kind = "RuntimeError"
     /\ raw_error # NoExc
     /\ raw_error.kind = "RuntimeError" => raw_error.msg = NoTextMessage
     /\ raised.msg =
          raw_error.msg \o (IF pyhwp_error # NoExc
                            THEN <<" (pyhwp failed: ">> \o pyhwp_error.msg \o <<")">>
                            ELSE <<>>)

C4_Witness ==
  /\ raised # NoExc
  /\ raw_error.kind = "OSError"
  /\ pyhwp_error # NoExc
  /\ pc = "exited"

\* C5: stdout receives nothing unless extract_text returned; after a failure
\* of extract_text stderr holds exactly one message, stdout is empty and the
\* exit status is non-zero; on success the diagnostic line is on stderr
\* before the text is written, and the text is written once.
C5_OutputOnlyOnSuccess ==
  /\ stdout # <<>> => result_label # "none" /\ raised = NoExc
  /\ stdout # <<>> =>
       /\ stdout = <<result_text>>
       /\ stderr = << <<"Decoded using ", result_label, " path.\n">> >>
  /\ pc = "write_text" =>
       /\ stdout = <<>>
       /\ stderr = << <<"Decoded using ", result_label, " path.\n">> >>
  /\ raised # NoExc => stdout = <<>>
  /\ (raised # NoExc /\ pc = "exited") =>
       /\ stderr = << raised.msg \o <<"\n">> >>
       /\ exit_status > 0
  /\ (result_label # "none" /\ pc = "exited") => Len(stdout) = 1

C5_Witness ==
  /\ pc = "exited"
  /\ raised # NoExc
  /\ Len(stderr) = 1
  /\ exit_status = 1

\* C6: normalize_text(normalize_text(S)) = normalize_text(S).
C6_Idempotent == npc = "twice" => nout2 = nout

C6_Witness ==
  /\ npc = "twice"
  /\ nout # nraw
  /\ Len(SplitLines(nout)) >= 2

\* C7, as claimed: the text extract_text returns is a NormalizedDocument.
C7_ResultIsNormalizedDocument ==
  result_label # "none" => IsNormalizedDocument(result_text)

\* C7, amended: the text extract_text returns is non-empty; from the hwpx and
\* pyhwp strategies it is a NormalizedDocument; from the raw-stream strategy
\* it is one or more NormalizedDocuments, one per surviving segment, joined
\* by exactly two newlines.
C7_ResultIsJoinedNormalizedDocuments ==
  result_label # "none" =>
     /\ result_text # None /\ result_text # <<>>
     /\ result_label \in {"hwpx", "pyhwp"} => IsNormalizedDocument(result_text)
     /\ result_label \notin {"hwpx", "pyhwp"} =>
          /\ text_fragments # <<>>
          /\ \A i \in 1..Len(text_fragments) :
               IsNormalizedDocument(text_fragments[i])
          /\ result_text = Join(text_fragments, <<LF, LF>>)

C7_Witness ==
  /\ result_label = "smart_decode"
  /\ Len(text_fragments) = 2
  /\ pc = "exited"

\* C8, as claimed: a line whose Hangul share of its alphanumeric characters
\* is below 0.2 and that has no Latin letter contributes nothing.
C8_LowHangulLineDropped ==
  (npc # "start" /\ 5 * HangulCount(nraw) < AlnumCount(nraw)
     /\ HasNoLatinLetter(nraw)) => nout = <<>>

\* C8, amended: a line is dropped when, in its longest candidate span (the
\* first of the longest, trimmed), the Hangul share of the alphanumeric
\* characters is below 0.2 and the span has no Latin letter.
C8_LowHangulSpanDropped ==
  (npc # "start" /\ FindSpans(FilteredLine(nraw)) # <<>>
     /\ 5 * HangulCount(BestSpan(FilteredLine(nraw)))
          < AlnumCount(BestSpan(FilteredLine(nraw)))
     /\ HasNoLatinLetter(BestSpan(FilteredLine(nraw)))) => nout = <<>>

C8_Witness ==
  /\ npc = "once"
  /\ HangulCount(nraw) > 0
  /\ FindSpans(FilteredLine(nraw)) # <<>>
  /\ HangulCount(BestSpan(FilteredLine(nraw))) > 0
  /\ 5 * HangulCount(BestSpan(FilteredLine(nraw)))
       < AlnumCount(BestSpan(FilteredLine(nraw)))
  /\ nout = <<>>

\* C9: the str smart_decode returns scores at least as high as every
\* candidate decoded during the call, whichever return statement is taken,
\* and it is empty for an empty buffer.
C9_BestOf ==
  dpc = "done" =>
     /\ dret # None
     /\ \A t \in dtried : ScoreGe(score_text(dret), score_text(t))
     /\ draw = <<>> => dret = <<>>

C9_Witness ==
  /\ dpc = "done"
  /\ dexit = "return_narrowed_pass"
  /\ Cardinality(dtried) >= 3

\* C10, as claimed: a buffer whose utf-16-le decoding is valid and scores
\* above 1.2 is decoded to that decoding.
C10_LittleEndianWins ==
  (dpc = "done" /\ Decode(draw, "utf-16-le").ok
     /\ ScoreAbove12(Decode(draw, "utf-16-le").txt))
    => dret = Decode(draw, "utf-16-le").txt

\* C10, amended: such a buffer is decoded to its utf-16-le decoding when more
\* than 20% of its first 4096 bytes are zero bytes.
C10_LittleEndianWinsWhenZeroBytes ==
  (dpc = "done" /\ Decode(draw, "utf-16-le").ok
     /\ ScoreAbove12(Decode(draw, "utf-16-le").txt)
     /\ 5 * Count(Sample(draw), 0) > Len(Sample(draw)))
    => dret = Decode(draw, "utf-16-le").txt /\ dexit = "return_first_pass"

C10_Witness ==
  /\ dpc = "done"
  /\ Decode(draw, "utf-16-le").ok
  /\ ScoreAbove12(Decode(draw, "utf-16-le").txt)
  /\ 5 * Count(Sample(draw), 0) > Len(Sample(draw))
  /\ dret = Decode(draw, "utf-16-le").txt
  /\ dret # Decode(draw, "cp949").txt
  /\ Len(draw) = 4

====
